---- MODULE Spec2Model ----
(***************************************************************************)
(* Attribution analytics dashboard: the conversion recorders               *)
(* (Shopify conversion API, Shopify webhook, tracking API), the session    *)
(* tracker and the event batches, the storage rows they write, the         *)
(* attribution calculator and the funnel of the dashboard.                 *)
(*                                                                         *)
(* Time is in milliseconds, as Date.now() gives it, relative to an epoch   *)
(* chosen so that every instant fits a 32-bit integer.  Floating-point     *)
(* weights are modelled as exact rationals <<numerator, denominator>> in   *)
(* lowest terms; Math.pow(2, x) is evaluated exactly, so touchpoint ages   *)
(* are whole multiples of the half-life.                                   *)
(***************************************************************************)
EXTENDS Integers, Sequences, FiniteSets, TLC

VARIABLES
    clock,          \* Date.now(), in ticks of TickMs
    sessions,       \* table "sessions": sessionId -> row (unique index on sessionId)
    conversions,    \* table "conversions": sequence of rows in insertion order
    lineItems,      \* table "conversion_line_items": sequence of rows
    campaigns,      \* table "campaigns": <<source, medium, campaign>> -> row
    dailyMetrics,   \* table "daily_metrics": date -> row
    events,         \* table "events": sequence of rows in insertion order
    landingPageEvents, \* table "landing_page_events": sequence of rows
    funnel,         \* the funnel of the last dashboard query
    calls,          \* processConversion calls suspended at an await
    response,       \* the last HTTP response a handler returned
    journey,        \* attribution calculator: the customerJourney argument
    evalNow,        \* attribution calculator: Date.now() at the evaluation
    result,         \* attribution calculator: the last value returned
    prevResult,     \* attribution calculator: the value returned before that
    delivered,      \* webhook deliveries answered so far, in order of arrival
    metaEvents      \* events posted to the Meta Conversions API

storeVars == <<clock, sessions, conversions, lineItems, campaigns, dailyMetrics, calls, response>>
calcVars == <<journey, evalNow, result, prevResult>>
trackVars == <<events, landingPageEvents, funnel>>
hookVars == <<delivered, metaEvents>>
vars == <<clock, sessions, conversions, lineItems, campaigns, dailyMetrics, calls, response,
          journey, evalNow, result, prevResult, events, landingPageEvents, funnel,
          delivered, metaEvents>>

----------------------------------------------------------------------------
(* Bounds of the model *)

MaxClock == 1          \* the clock ticks at most this many times
MaxConversions == 2    \* rows of "conversions" the model lets exist
MaxCalls == 2          \* processConversion calls in flight at once
MaxJourneyLen == 4     \* longest journey given to the attribution calculator
MaxAge == 1            \* oldest touchpoint, in half-lives before the epoch
MaxSummaryLen == 3     \* longest journey given to the journey metrics
MaxOffset == 3         \* latest touchpoint of such a journey, in ticks
MaxEvents == 3         \* rows of "landing_page_events" the model lets exist
MaxFunnelClock == 4    \* the clock of the funnel queries goes up to this
MaxDeliveries == 2     \* webhook deliveries the delivery log lets arrive

TickMs == 12 * 60 * 60 * 1000

(* Program constants *)

halfLife == 7 * 24 * 60 * 60 * 1000
inactivityWindow == 30 * 60 * 1000
dayMs == 1000 * 60 * 60 * 24

\* null / undefined: of a string, of an array, of a number (Some(n) is the number
\* n), of an object
NULL == "null"
UNDEFINED == "undefined"
None == << >>
Some(n) == <<n>>
NoTouchpoint == [null |-> TRUE]

----------------------------------------------------------------------------
(* Exact rational arithmetic standing for the doubles of the code *)

Abs(x) == IF x < 0 THEN -x ELSE x

Max(a, b) == IF a >= b THEN a ELSE b

RECURSIVE GCD(_, _)
GCD(a, b) == IF b = 0 THEN a ELSE GCD(b, a % b)

Rat(n, d) ==
    LET g == GCD(Abs(n), Abs(d))
        s == IF d < 0 THEN -1 ELSE 1
    IN  <<(s * n) \div g, (s * d) \div g>>

RatAdd(a, b) == Rat(a[1] * b[2] + b[1] * a[2], a[2] * b[2])

RatDiv(a, b) == Rat(a[1] * b[2], a[2] * b[1])

RECURSIVE RatSum(_)
RatSum(ws) == IF ws = << >> THEN <<0, 1>> ELSE RatAdd(Head(ws), RatSum(Tail(ws)))

RECURSIVE TwoTo(_)
TwoTo(k) == IF k = 0 THEN 1 ELSE 2 * TwoTo(k - 1)

\* Math.pow(2, e) for an integer exponent e
Pow2(e) == IF e >= 0 THEN <<TwoTo(e), 1>> ELSE <<1, TwoTo(-e)>>

----------------------------------------------------------------------------
(* The attribution calculator.  A customerJourney is a sequence of          *)
(* touchpoints; an absent one is UNDEFINED.                                 *)

UtmTriples == {<<"google", "cpc", "spring">>, <<"meta", "paid", "launch">>}

\* { ...tp, attribution_weight: w }
WithWeight(tp, w) ==
    [timestamp |-> tp.timestamp, session_id |-> tp.session_id,
     utm_source |-> tp.utm_source, utm_medium |-> tp.utm_medium,
     utm_campaign |-> tp.utm_campaign, attribution_weight |-> w]

Weights(list) == [i \in 1..Len(list) |-> list[i].attribution_weight]

linear(customerJourney) ==
    LET linearWeight == Rat(1, Len(customerJourney))
    IN  [i \in 1..Len(customerJourney) |-> WithWeight(customerJourney[i], linearWeight)]

timeDecayWeightsGrowing(customerJourney, now) ==
    [i \in 1..Len(customerJourney) |->
        Pow2((now - customerJourney[i].timestamp) \div halfLife)]

timeDecayWeights(customerJourney, now) ==
    [i \in 1..Len(customerJourney) |->
        LET timeDiff == now - customerJourney[i].timestamp
        IN  Pow2((-timeDiff) \div halfLife)]

timeDecayUnnormalised(customerJourney, now) ==
    [i \in 1..Len(customerJourney) |->
        WithWeight(customerJourney[i], timeDecayWeights(customerJourney, now)[i])]

timeDecay(customerJourney, now) ==
    LET ws == timeDecayWeights(customerJourney, now)
        totalTimeDecayWeight == RatSum(ws)
    IN  [i \in 1..Len(customerJourney) |->
            WithWeight(customerJourney[i], RatDiv(ws[i], totalTimeDecayWeight))]

positionBasedRenormalised(customerJourney) ==
    LET n == Len(customerJourney)
    IN  [index \in 1..n |->
            WithWeight(customerJourney[index],
                IF n = 1 THEN <<1, 1>>
                ELSE IF n = 2 THEN Rat(1, 2)
                ELSE IF index = 1 THEN Rat(2, 5)
                ELSE IF index = n THEN Rat(2, 5)
                ELSE Rat(1, 5 * (n - 2)))]

positionBasedMiddleUndivided(customerJourney) ==
    LET n == Len(customerJourney)
    IN  [index \in 1..n |->
            WithWeight(customerJourney[index],
                IF n = 1 THEN <<1, 1>>
                ELSE IF index = 1 THEN Rat(2, 5)
                ELSE IF index = n THEN Rat(2, 5)
                ELSE Rat(1, 5))]

positionBased(customerJourney) ==
    LET n == Len(customerJourney)
    IN  [index \in 1..n |->
            WithWeight(customerJourney[index],
                IF n = 1 THEN <<1, 1>>
                ELSE IF index = 1 THEN Rat(2, 5)
                ELSE IF index = n THEN Rat(2, 5)
                ELSE RatDiv(Rat(1, 5), <<Max(1, n - 2), 1>>))]

\* !customerJourney || customerJourney.length === 0
NoJourney(customerJourney) == customerJourney = UNDEFINED \/ Len(customerJourney) = 0

firstClick(customerJourney) == customerJourney[1]

lastClick(customerJourney) == customerJourney[Len(customerJourney)]

calculateAttributionModels(customerJourney, now) ==
    IF NoJourney(customerJourney)
    THEN [first_click |-> NoTouchpoint, last_click |-> NoTouchpoint, linear |-> << >>,
          time_decay |-> << >>, position_based |-> << >>]
    ELSE [first_click |-> firstClick(customerJourney),
          last_click |-> lastClick(customerJourney),
          linear |-> linear(customerJourney),
          time_decay |-> timeDecay(customerJourney, now),
          position_based |-> positionBased(customerJourney)]

calculateDaysToPurchaseZeroWhenEmpty(customerJourney) ==
    IF NoJourney(customerJourney) THEN Some(0)
    ELSE LET firstTouch == customerJourney[1].timestamp
             lastTouch == customerJourney[Len(customerJourney)].timestamp
             diff == lastTouch - firstTouch
         IN  Some((diff + dayMs \div 2) \div dayMs)

calculateDaysToPurchaseTruncated(customerJourney) ==
    IF NoJourney(customerJourney) THEN None
    ELSE LET firstTouch == customerJourney[1].timestamp
             lastTouch == customerJourney[Len(customerJourney)].timestamp
             diff == lastTouch - firstTouch
         IN  Some(diff \div dayMs)

calculateDaysToPurchase(customerJourney) ==
    IF NoJourney(customerJourney) THEN None
    ELSE LET firstTouch == customerJourney[1].timestamp
             lastTouch == customerJourney[Len(customerJourney)].timestamp
             diff == lastTouch - firstTouch
         IN  \* Math.round: to the nearest integer, halves towards +infinity
             Some((diff + dayMs \div 2) \div dayMs)

calculateSessionsToConversion(customerJourney) ==
    IF NoJourney(customerJourney) THEN 0
    ELSE Cardinality({customerJourney[i].session_id : i \in 1..Len(customerJourney)})

\* The journey metrics processConversion stores with the conversion
journeyMetrics(customerJourney) ==
    [touchpointCount |-> Some(IF customerJourney = UNDEFINED THEN 0 ELSE Len(customerJourney)),
     daysToPurchase |-> calculateDaysToPurchase(customerJourney),
     sessionsToConversion |-> Some(calculateSessionsToConversion(customerJourney))]

----------------------------------------------------------------------------
(* Request payloads *)

\* The instant of clock 0: noon of a day, twelve days before instant 0
Epoch == TickMs - 12 * dayMs

DateNow == Epoch + clock * TickMs

OrderNumbers == {1001, 1002}
OrderIds == {ToString(n) : n \in OrderNumbers}
SessionIds == {"s1"}

LineItem == [product_id |-> "p1", quantity |-> 1, price |-> 10]

\* The two versions of an order: one item for 10, or amended to no item for 25
ShopifyOrders ==
    { [id |-> n, total_price |-> v[1], line_items |-> v[2], note |-> note,
       created_at |-> Epoch] :
        n \in OrderNumbers,
        v \in {<<"10.00", <<LineItem>>>>, <<"25.00", << >>>>},
        note \in {NULL, "session_id:s1"} }

OrderDatas ==
    { [order_id |-> o, total_price |-> v[1], line_items |-> v[2]] :
        o \in OrderIds, v \in {<<10, <<LineItem>>>>, <<25, << >>>>} }

\* The attribution object of the request body; an absent one has no field set
NoAttribution ==
    [session_id |-> NULL, utm_source |-> NULL, utm_medium |-> NULL, utm_campaign |-> NULL]

Attributions ==
    { NoAttribution,
      [session_id |-> "s1", utm_source |-> "google", utm_medium |-> "cpc",
       utm_campaign |-> "spring"] }

\* Attribution objects of session s1 with any of the three campaign fields
\* absent, and the campaign possibly an empty string
PartialAttributions ==
    { [session_id |-> "s1", utm_source |-> src, utm_medium |-> med, utm_campaign |-> cmp] :
        src \in {NULL, "google"}, med \in {NULL, "cpc"}, cmp \in {NULL, "", "spring"} }

Touchpoint(t, sid, utm) ==
    [timestamp |-> t, session_id |-> sid, utm_source |-> utm[1], utm_medium |-> utm[2],
     utm_campaign |-> utm[3]]

\* The journeys a conversion request carries when it carries one: empty, or
\* two touchpoints, the older one a half-life before the request
GivenJourneys(now) ==
    { << >>,
      << Touchpoint(now - halfLife, "s0", <<"meta", "paid", "launch">>),
         Touchpoint(now, "s1", <<"google", "cpc", "spring">>) >> }

\* The customer_journey of a request body: absent, or one of the above
RequestJourneys(now) ==
    { UNDEFINED, << >>,
      << Touchpoint(now - halfLife, "s0", <<"meta", "paid", "launch">>),
         Touchpoint(now, "s1", <<"google", "cpc", "spring">>) >> }

TrackingConversions ==
    { [sessionId |-> sid, orderId |-> o, totalValue |-> v[1], itemCount |-> v[2],
       lineItems |-> v[3]] :
        sid \in SessionIds \cup {"s9"}, o \in OrderIds,
        v \in {<<10, 1, <<LineItem>>>>, <<25, 0, << >>>>} }

SessionStarts ==
    { [sessionId |-> sid, utmSource |-> u[1], utmMedium |-> u[2], utmCampaign |-> u[3],
       gclid |-> NULL] :
        sid \in SessionIds, u \in {<<"google", "cpc", "spring">>} }

\* The x-shopify-hmac-sha256 header of a request: absent, of another length
\* than the digest of the body, a wrong digest, the digest; or any header
\* while SHOPIFY_WEBHOOK_SECRET is not configured
HmacHeaders == {"missing", "wrong_length", "mismatch", "valid", "no_secret"}

WebhookTopics == {"orders/create", "orders/updated", "orders/paid", "orders/cancelled",
                  "checkouts/update"}

AllWebhookTopics == WebhookTopics \cup {"checkouts/create"}

\* parseFloat on the price strings of the payloads
parseFloat(s) == CASE s = "10.00" -> 10 [] s = "25.00" -> 25

----------------------------------------------------------------------------
(* The storage layer: rows, constraints and the Prisma operations used *)

NoAttributionData == [null |-> TRUE]

\* The columns of "conversions" a create leaves unset; createdAt defaults to
\* CURRENT_TIMESTAMP
ConversionDefaults ==
    [sessionId |-> NULL, conversionId |-> NULL, orderId |-> NULL, totalValue |-> 0,
     itemCount |-> 0, createdAt |-> DateNow,
     firstClickUtmSource |-> NULL, firstClickUtmMedium |-> NULL, firstClickUtmCampaign |-> NULL,
     lastClickUtmSource |-> NULL, lastClickUtmMedium |-> NULL, lastClickUtmCampaign |-> NULL,
     touchpointCount |-> None, daysToPurchase |-> None, sessionsToConversion |-> None,
     attributionData |-> NoAttributionData, updatedAt |-> None]

\* row with the columns named in data set to data's values
Patch(row, data) ==
    [f \in DOMAIN row |-> IF f \in DOMAIN data THEN data[f] ELSE row[f]]

\* prisma.conversion.create succeeds when the foreign key on sessionId and the
\* unique index on conversionId allow the row; it throws otherwise
conversionCreateAllowed(data) ==
    /\ data.sessionId \in DOMAIN sessions
    /\ \A i \in 1..Len(conversions) : conversions[i].conversionId # data.conversionId

conversionCreate(rows, data) == Append(rows, Patch(ConversionDefaults, data))

\* prisma.conversion.updateMany({ where: { orderId }, data })
conversionUpdateMany(rows, orderId, data) ==
    [i \in 1..Len(rows) |-> IF rows[i].orderId = orderId THEN Patch(rows[i], data) ELSE rows[i]]

\* The foreign key of "events" on sessions.sessionId
eventCreateAllowed(data) == data.sessionId \in DOMAIN sessions

OrderRecorded(orderId) == \E i \in 1..Len(conversions) : conversions[i].orderId = orderId

lineItemRows(conversion, items) ==
    [k \in 1..Len(items) |->
        [conversionId |-> conversion, productId |-> items[k].product_id,
         quantity |-> items[k].quantity, price |-> items[k].price]]

campaignUpsertOverwrites(table, key, revenue) ==
    (key :> [name |-> key[3], conversions |-> 1, revenue |-> revenue]) @@ table

\* prisma.campaign.upsert: one statement at the database, an insert or an
\* in-place increment of the row with the key
campaignUpsert(table, key, revenue) ==
    IF key \in DOMAIN table
    THEN [table EXCEPT ![key] = [@ EXCEPT !.conversions = @ + 1, !.revenue = @ + revenue]]
    ELSE (key :> [name |-> key[3], conversions |-> 1, revenue |-> revenue]) @@ table

\* new Date(y, m, d): the instant the day of `now` began
dateOnly(now) == (now \div dayMs) * dayMs

dailyMetricsUpsertOverwrites(table, date, metrics) ==
    (date :> [conversions |-> metrics.conversions, revenue |-> metrics.revenue,
              sessions |-> 0]) @@ table

\* prisma.dailyMetrics.upsert with metrics { conversions, revenue }
dailyMetricsUpsert(table, date, metrics) ==
    IF date \in DOMAIN table
    THEN [table EXCEPT ![date] =
            [@ EXCEPT !.conversions = IF metrics.conversions # 0
                                      THEN @ + metrics.conversions ELSE @,
                      !.revenue = IF metrics.revenue # 0 THEN @ + metrics.revenue ELSE @]]
    ELSE (date :> [conversions |-> metrics.conversions, revenue |-> metrics.revenue,
                   sessions |-> 0]) @@ table

----------------------------------------------------------------------------
(* Shopify webhook: POST /api/shopify/webhook *)

\* NextResponse.json(body, { status }): the status is what the model keeps
Respond(handler, status) == [status |-> status]

\* The payloads carry a session id in the order note or nowhere
extractSessionId(order) ==
    IF order.note = "session_id:s1" THEN "s1" ELSE NULL

\* rows after updateSessionAttribution(sessionId, order)
updateSessionAttribution(rows, sessionId, order) ==
    IF sessionId \in DOMAIN sessions
    THEN LET session == sessions[sessionId]
         IN  conversionUpdateMany(rows, ToString(order.id),
                [firstClickUtmSource |-> session.utmSource,
                 firstClickUtmMedium |-> session.utmMedium,
                 firstClickUtmCampaign |-> session.utmCampaign,
                 lastClickUtmSource |-> session.utmSource,
                 lastClickUtmMedium |-> session.utmMedium,
                 lastClickUtmCampaign |-> session.utmCampaign,
                 daysToPurchase |-> Some((DateNow - session.createdAt) \div dayMs),
                 touchpointCount |-> Some(1),
                 sessionsToConversion |-> Some(1)])
    ELSE rows

orderCreateData(order) ==
    LET sessionId == extractSessionId(order)
    IN  [sessionId |-> IF sessionId # NULL THEN sessionId
                       ELSE "shopify_" \o ToString(order.id),
         conversionId |-> "shopify_" \o ToString(order.id),
         orderId |-> ToString(order.id),
         totalValue |-> parseFloat(order.total_price),
         itemCount |-> Len(order.line_items),
         createdAt |-> order.created_at]

handleOrderCreate(order) ==
    LET sessionId == extractSessionId(order)
        data == orderCreateData(order)
        created == conversionCreate(conversions, data)
    IN  /\ conversionCreateAllowed(data) => Len(conversions) < MaxConversions
        /\ IF conversionCreateAllowed(data)
           THEN /\ conversions' = IF sessionId # NULL
                                  THEN updateSessionAttribution(created, sessionId, order)
                                  ELSE created
                /\ lineItems' = lineItems \o lineItemRows(Len(created), order.line_items)
                /\ response' = Respond("shopify/webhook", 200)
           ELSE \* the create throws; POST answers 500
                /\ response' = Respond("shopify/webhook", 500)
                /\ UNCHANGED <<conversions, lineItems>>

orderUpdateDataResetsAttribution(order) ==
    [totalValue |-> parseFloat(order.total_price), itemCount |-> Len(order.line_items),
     updatedAt |-> Some(DateNow), touchpointCount |-> Some(0),
     firstClickUtmSource |-> NULL, attributionData |-> NoAttributionData]

orderUpdateData(order) ==
    [totalValue |-> parseFloat(order.total_price), itemCount |-> Len(order.line_items),
     updatedAt |-> Some(DateNow)]

handleOrderUpdate(order) ==
    /\ conversions' = conversionUpdateMany(conversions, ToString(order.id),
                                           orderUpdateData(order))
    /\ response' = Respond("shopify/webhook", 200)
    /\ UNCHANGED lineItems

handleOrderPaid(order) ==
    /\ conversions' = conversionUpdateMany(conversions, ToString(order.id),
                                           [updatedAt |-> Some(DateNow)])
    /\ response' = Respond("shopify/webhook", 200)
    /\ UNCHANGED lineItems

handleOrderCancelled(order) ==
    /\ conversions' = conversionUpdateMany(conversions, ToString(order.id),
                                           [updatedAt |-> Some(DateNow)])
    /\ response' = Respond("shopify/webhook", 200)
    /\ UNCHANGED lineItems

handleCheckoutCreateReplacing(checkout) ==
    LET sessionId == extractSessionId(checkout)
        row == [sessionId |-> sessionId, eventName |-> "checkout_started",
                timestamp |-> checkout.created_at, createdAt |-> DateNow]
        others == SelectSeq(events, LAMBDA e : ~(e.sessionId = sessionId
                                                  /\ e.eventName = "checkout_started"))
    IN  /\ (sessionId # NULL /\ eventCreateAllowed(row)) => Len(others) < MaxEvents
        /\ IF sessionId = NULL
           THEN /\ response' = Respond("shopify/webhook", 200)
                /\ UNCHANGED events
           ELSE IF eventCreateAllowed(row)
           THEN /\ events' = Append(others, row)
                /\ response' = Respond("shopify/webhook", 200)
           ELSE /\ response' = Respond("shopify/webhook", 500)
                /\ UNCHANGED events
        /\ UNCHANGED <<conversions, lineItems>>

\* POST /api/shopify/webhook with topic checkouts/create; the payload of a
\* checkout has the fields of an order
handleCheckoutCreate(checkout) ==
    LET sessionId == extractSessionId(checkout)
        row == [sessionId |-> sessionId, eventName |-> "checkout_started",
                timestamp |-> checkout.created_at, createdAt |-> DateNow]
    IN  /\ (sessionId # NULL /\ eventCreateAllowed(row)) => Len(events) < MaxEvents
        /\ IF sessionId = NULL
           THEN /\ response' = Respond("shopify/webhook", 200)
                /\ UNCHANGED events
           ELSE IF eventCreateAllowed(row)
           THEN /\ events' = Append(events, row)
                /\ response' = Respond("shopify/webhook", 200)
           ELSE \* the create throws; POST answers 500
                /\ response' = Respond("shopify/webhook", 500)
                /\ UNCHANGED events
        /\ UNCHANGED <<conversions, lineItems>>

verifyWebhookUnlessMissing(hmacHeader) == hmacHeader # "missing"

\* False without a header or without a configured secret; otherwise the
\* comparison of the header with the digest (timingSafeEqual throws on a
\* header of another length than the digest)
verifyWebhook(hmacHeader) == hmacHeader = "valid"

ShopifyWebhook(topic, order, hmacHeader) ==
    /\ IF hmacHeader = "wrong_length"
       THEN /\ response' = Respond("shopify/webhook", 500)
            /\ UNCHANGED <<conversions, lineItems>>
       ELSE IF ~verifyWebhook(hmacHeader)
       THEN /\ response' = Respond("shopify/webhook", 401)
            /\ UNCHANGED <<conversions, lineItems>>
       ELSE /\ CASE topic = "orders/create" -> handleOrderCreate(order)
                 [] topic = "orders/updated" -> handleOrderUpdate(order)
                 [] topic = "orders/paid" -> handleOrderPaid(order)
                 [] topic = "orders/cancelled" -> handleOrderCancelled(order)
                 [] topic = "checkouts/create" -> handleCheckoutCreate(order)
                 [] OTHER -> /\ response' = Respond("shopify/webhook", 200)
                             /\ UNCHANGED <<conversions, lineItems>>
    /\ IF hmacHeader # "wrong_length" /\ verifyWebhook(hmacHeader)
             /\ topic = "checkouts/create"
       THEN TRUE
       ELSE UNCHANGED events
    /\ UNCHANGED <<clock, sessions, campaigns, dailyMetrics, calls>>

\* The event sendMetaConversionEvent and sendMetaEvent post
metaEvent(eventName, order, sessionId) ==
    [event_name |-> eventName, id |-> order.id, external_id |-> sessionId]

\* What the handler of a topic posts once its writes are done: a Purchase
\* from handleOrderCreate and handleOrderPaid, an InitiateCheckout from
\* handleCheckoutCreate when the checkout names a session
metaEventsOf(topic, order) ==
    LET sessionId == extractSessionId(order)
    IN  IF topic \in {"orders/create", "orders/paid"}
        THEN {metaEvent("Purchase", order, sessionId)}
        ELSE IF topic = "checkouts/create" /\ sessionId # NULL
        THEN {metaEvent("InitiateCheckout", order, sessionId)}
        ELSE {}

\* The webhook while META_PIXEL_ID and META_ACCESS_TOKEN are configured; a
\* handler that threw has posted nothing
ShopifyWebhookWithPixel(topic, order, hmacHeader) ==
    /\ ShopifyWebhook(topic, order, hmacHeader)
    /\ metaEvents' = IF hmacHeader # "wrong_length" /\ verifyWebhook(hmacHeader)
                          /\ response'.status = 200
                     THEN metaEvents \cup metaEventsOf(topic, order)
                     ELSE metaEvents

----------------------------------------------------------------------------
(* Tracking API: POST /api/track *)

handleSessionStart(data) ==
    /\ sessions' =
         IF data.sessionId \in DOMAIN sessions
         THEN [sessions EXCEPT ![data.sessionId] =
                 [@ EXCEPT !.updatedAt = DateNow,
                           !.expiresAt = DateNow + inactivityWindow]]
         ELSE (data.sessionId :>
                 [sessionId |-> data.sessionId, createdAt |-> DateNow,
                  updatedAt |-> DateNow, expiresAt |-> DateNow + inactivityWindow,
                  utmSource |-> data.utmSource, utmMedium |-> data.utmMedium,
                  utmCampaign |-> data.utmCampaign, gclid |-> data.gclid]) @@ sessions
    /\ response' = Respond("track", 200)
    /\ UNCHANGED <<clock, conversions, lineItems, campaigns, dailyMetrics, calls>>

RandomSuffixes == {"k3x", "q7m"}

trackingConversionDataUnlessExpired(data, session, random) ==
    LET live(v) == IF session.expiresAt < DateNow THEN NULL ELSE v
    IN  [sessionId |-> data.sessionId,
         conversionId |-> "conv_" \o ToString(DateNow) \o "_" \o random,
         orderId |-> data.orderId,
         totalValue |-> data.totalValue,
         itemCount |-> data.itemCount,
         firstClickUtmSource |-> live(session.utmSource),
         firstClickUtmMedium |-> live(session.utmMedium),
         firstClickUtmCampaign |-> live(session.utmCampaign),
         lastClickUtmSource |-> live(session.utmSource),
         lastClickUtmMedium |-> live(session.utmMedium),
         lastClickUtmCampaign |-> live(session.utmCampaign),
         createdAt |-> DateNow]

trackingConversionData(data, session, random) ==
    [sessionId |-> data.sessionId,
     conversionId |-> "conv_" \o ToString(DateNow) \o "_" \o random,
     orderId |-> data.orderId,
     totalValue |-> data.totalValue,
     itemCount |-> data.itemCount,
     firstClickUtmSource |-> session.utmSource,
     firstClickUtmMedium |-> session.utmMedium,
     firstClickUtmCampaign |-> session.utmCampaign,
     lastClickUtmSource |-> session.utmSource,
     lastClickUtmMedium |-> session.utmMedium,
     lastClickUtmCampaign |-> session.utmCampaign,
     createdAt |-> DateNow]

handleConversion(data, random) ==
    /\ IF data.sessionId \notin DOMAIN sessions
       THEN /\ response' = Respond("track", 404)
            /\ UNCHANGED <<conversions, lineItems>>
       ELSE LET row == trackingConversionData(data, sessions[data.sessionId], random)
            IN  /\ conversionCreateAllowed(row) => Len(conversions) < MaxConversions
                /\ IF conversionCreateAllowed(row)
                   THEN /\ conversions' = conversionCreate(conversions, row)
                        /\ lineItems' = lineItems \o
                                          lineItemRows(Len(conversions) + 1, data.lineItems)
                        /\ response' = Respond("track", 200)
                   ELSE /\ response' = Respond("track", 500)
                        /\ UNCHANGED <<conversions, lineItems>>
    /\ UNCHANGED <<clock, sessions, campaigns, dailyMetrics, calls>>

\* Page views arrive with the browser's timestamp: the instant of the request,
\* or two days earlier for a page view delivered late
PageViews(sids) ==
    { [sessionId |-> sid, timestamp |-> t] :
        sid \in sids, t \in {DateNow, DateNow - 2 * dayMs} }

handlePageView(data) ==
    /\ Len(landingPageEvents) < MaxEvents
    /\ landingPageEvents' =
          Append(landingPageEvents,
                 [sessionId |-> data.sessionId, eventName |-> "page_view",
                  createdAt |-> data.timestamp])
    /\ LET row == [sessionId |-> data.sessionId, eventName |-> "page_view",
                   timestamp |-> data.timestamp, createdAt |-> DateNow]
       IN  IF eventCreateAllowed(row)
           THEN /\ events' = Append(events, row)
                /\ response' = Respond("track", 200)
           ELSE \* the create throws, POST answers 500
                /\ events' = events
                /\ response' = Respond("track", 500)
    /\ UNCHANGED <<clock, sessions, conversions, lineItems, campaigns, dailyMetrics, calls,
                   funnel>>

InteractionNames == {"product_view", "add_to_cart"}

Interactions(sids) ==
    { [sessionId |-> sid, eventName |-> name] : sid \in sids, name \in InteractionNames }

handleInteraction(data) ==
    /\ Len(landingPageEvents) < MaxEvents
    /\ landingPageEvents' =
          Append(landingPageEvents,
                 [sessionId |-> data.sessionId, eventName |-> data.eventName,
                  createdAt |-> DateNow])
    /\ LET row == [sessionId |-> data.sessionId, eventName |-> data.eventName,
                   timestamp |-> DateNow, createdAt |-> DateNow]
       IN  \* a failing create is caught and logged
           events' = IF eventCreateAllowed(row) THEN Append(events, row) ELSE events
    /\ response' = Respond("track", 200)
    /\ UNCHANGED <<clock, sessions, conversions, lineItems, campaigns, dailyMetrics, calls,
                   funnel>>

----------------------------------------------------------------------------
(* Landing-page analytics: POST /api/analytics/landing-page, a batch of     *)
(* events with the session_data of the page                                 *)

\* t + 30 * 24 * 60 * 60 * 1000, in two steps that fit 32 bits
plusThirtyDays(t) == (t + 15 * dayMs) + 15 * dayMs

BatchEvents(sids) ==
    { [session_id |-> sid, event_name |-> "page_view", timestamp |-> DateNow,
       custom_data |-> c] :
        sid \in sids, c \in {NULL, "variant_b"} }

SessionDatas ==
    { [utm_data |-> [utm_source |-> u[1], utm_medium |-> u[2], utm_campaign |-> u[3]]] :
        u \in {<<NULL, NULL, NULL>>, <<"meta", "paid", "launch">>} }

BatchBodies(sids) ==
    { [events |-> es, session_data |-> sd] :
        es \in {<< >>} \cup {<<e>> : e \in BatchEvents(sids)}, sd \in SessionDatas }

\* prisma.session.upsert of the batch route: the update branch sets updatedAt
\* only, the create branch takes the session's context from session_data
batchSessionUpsert(table, event, session_data) ==
    IF event.session_id \in DOMAIN table
    THEN [table EXCEPT ![event.session_id] = [@ EXCEPT !.updatedAt = DateNow]]
    ELSE (event.session_id :>
            [sessionId |-> event.session_id, createdAt |-> DateNow, updatedAt |-> DateNow,
             expiresAt |-> plusThirtyDays(DateNow),
             utmSource |-> session_data.utm_data.utm_source,
             utmMedium |-> session_data.utm_data.utm_medium,
             utmCampaign |-> session_data.utm_data.utm_campaign,
             gclid |-> NULL]) @@ table

\* customData: event.custom_data || {} -- the column is a string, and
\* prisma.landingPageEvent.create rejects the object {}
landingPageEventCreateAllowed(event) == event.custom_data # NULL

\* eventData: event -- the column is a string and event is an object:
\* prisma.event.create rejects it
batchEventCreateAllowed(event) == FALSE

\* The loop over the events of the body stops at the first create that
\* throws, which the first event reaches; POST then answers 500.
AnalyticsPost(body) ==
    /\ IF Len(body.events) = 0
       THEN /\ response' = Respond("analytics/landing-page", 200)
            /\ UNCHANGED <<sessions, landingPageEvents, events>>
       ELSE LET event == body.events[1]
            IN  /\ landingPageEventCreateAllowed(event)
                       => Len(landingPageEvents) < MaxEvents
                /\ sessions' = batchSessionUpsert(sessions, event, body.session_data)
                /\ landingPageEvents' =
                      IF landingPageEventCreateAllowed(event)
                      THEN Append(landingPageEvents,
                                  [sessionId |-> event.session_id,
                                   eventName |-> event.event_name, createdAt |-> DateNow])
                      ELSE landingPageEvents
                /\ events' =
                      IF landingPageEventCreateAllowed(event) /\ batchEventCreateAllowed(event)
                      THEN Append(events,
                                  [sessionId |-> event.session_id,
                                   eventName |-> event.event_name,
                                   timestamp |-> event.timestamp, createdAt |-> DateNow])
                      ELSE events
                /\ response' =
                      IF landingPageEventCreateAllowed(event) /\ batchEventCreateAllowed(event)
                      THEN Respond("analytics/landing-page", 200)
                      ELSE Respond("analytics/landing-page", 500)
    /\ UNCHANGED <<clock, conversions, lineItems, campaigns, dailyMetrics, calls, funnel>>

----------------------------------------------------------------------------
(* Dashboard: GET /api/analytics/dashboard; of its answer the overview,     *)
(* the funnel and the timeline                                              *)

steps ==
    << [name |-> "Landing Page Views", eventPattern |-> "page_view"],
       [name |-> "Product Views", eventPattern |-> "product_view"],
       [name |-> "Add to Cart", eventPattern |-> "add_to_cart"],
       [name |-> "Checkout Started", eventPattern |-> "checkout_started"],
       [name |-> "Purchase", eventPattern |-> "purchase_completed"] >>

\* prisma.event.groupBy({ by: ['sessionId'], where: { eventName, createdAt } })
eventGroupBy(table, eventName, startDate, endDate) ==
    { table[i].sessionId : i \in { k \in 1..Len(table) :
        /\ table[k].eventName = eventName
        /\ table[k].createdAt >= startDate
        /\ table[k].createdAt <= endDate } }

funnelRatesDropFromFirst(funnelData) ==
    [i \in 1..Len(funnelData) |->
        [step |-> funnelData[i].step,
         visitors |-> funnelData[i].visitors,
         conversionRate |->
            IF i = 1 THEN <<100, 1>>
            ELSE IF funnelData[1].visitors > 0
                 THEN Rat(funnelData[i].visitors * 100, funnelData[1].visitors)
                 ELSE <<0, 1>>,
         dropOff |-> IF i > 1 THEN funnelData[1].visitors - funnelData[i].visitors
                     ELSE 0]]

funnelRatesStepwise(funnelData) ==
    [i \in 1..Len(funnelData) |->
        [step |-> funnelData[i].step,
         visitors |-> funnelData[i].visitors,
         conversionRate |->
            IF i = 1 THEN <<100, 1>>
            ELSE IF funnelData[i - 1].visitors > 0
                 THEN Rat(funnelData[i].visitors * 100, funnelData[i - 1].visitors)
                 ELSE <<0, 1>>,
         dropOff |-> IF i > 1 THEN funnelData[i - 1].visitors - funnelData[i].visitors
                     ELSE 0]]

\* The second loop of getFunnelData: conversion rates and drop-offs
funnelRates(funnelData) ==
    [i \in 1..Len(funnelData) |->
        [step |-> funnelData[i].step,
         visitors |-> funnelData[i].visitors,
         conversionRate |->
            IF i = 1 THEN <<100, 1>>
            ELSE LET previousVisitors == funnelData[1].visitors
                 IN  IF previousVisitors > 0
                     THEN Rat(funnelData[i].visitors * 100, previousVisitors)
                     ELSE <<0, 1>>,
         dropOff |-> IF i > 1 THEN funnelData[i - 1].visitors - funnelData[i].visitors
                     ELSE 0]]

getFunnelData(table, startDate, endDate) ==
    funnelRates([i \in 1..Len(steps) |->
        [step |-> steps[i].name,
         visitors |-> Cardinality(eventGroupBy(table, steps[i].eventPattern,
                                               startDate, endDate)),
         conversionRate |-> <<0, 1>>,
         dropOff |-> 0]])

TimeRanges == {"1d", "7d"}

daysOf(timeRange) == CASE timeRange = "1d" -> 1 [] timeRange = "7d" -> 7

\* Math.random() of one request, in tenths: every call of the request
\* returns a low value, or every call a high one
Randoms == {1, 9}

\* Math.floor(Math.random() * n)
randomBelow(random, n) == (random * n) \div 10

\* Math.random() > 0.5 ? 'up' : 'down'
randomTrend(random) == IF random > 5 THEN "up" ELSE "down"

\* prisma.session.count({ where: { createdAt: { gte, lte } } })
sessionCount(table, startDate, endDate) ==
    Cardinality({ s \in DOMAIN table :
        table[s].createdAt >= startDate /\ table[s].createdAt <= endDate })

conversionsBetween(rows, startDate, endDate) ==
    { i \in 1..Len(rows) : rows[i].createdAt >= startDate /\ rows[i].createdAt <= endDate }

RECURSIVE totalValueSum(_, _)
\* prisma.conversion.aggregate({ _sum: { totalValue: true } }) over the rows in
\* S, with || 0 for the null of an empty sum
totalValueSum(rows, S) ==
    IF S = {} THEN 0
    ELSE LET i == CHOOSE x \in S : TRUE
         IN  rows[i].totalValue + totalValueSum(rows, S \ {i})

getOverviewMetrics(startDate, endDate, random) ==
    LET totalSessions == sessionCount(sessions, startDate, endDate)
        inRange == conversionsBetween(conversions, startDate, endDate)
        totalConversions == Cardinality(inRange)
        totalRevenue == totalValueSum(conversions, inRange)
        sessionsTrend == randomTrend(random)
        conversionsTrend == randomTrend(random)
        revenueTrend == randomTrend(random)
        sessionsChange == randomBelow(random, 20) + 1
        conversionsChange == randomBelow(random, 15) + 1
        revenueChange == randomBelow(random, 25) + 1
        uniqueVisitors == (totalSessions * 8) \div 10
    IN  [totalSessions |-> [value |-> totalSessions, change |-> sessionsChange,
                            trend |-> sessionsTrend],
         uniqueVisitors |-> [value |-> uniqueVisitors, change |-> sessionsChange - 2,
                             trend |-> sessionsTrend],
         conversions |-> [value |-> totalConversions, change |-> conversionsChange,
                          trend |-> conversionsTrend],
         revenue |-> [value |-> totalRevenue, change |-> revenueChange,
                      trend |-> revenueTrend]]

\* One point per day of the range, thirty at most; the date is kept as the
\* instant its day began
generateTimelineData(startDate, endDate, random) ==
    LET days == (endDate - startDate + dayMs - 1) \div dayMs
    IN  [k \in 1..(IF days < 30 THEN days ELSE 30) |->
            [date |-> dateOnly(startDate + (k - 1) * dayMs),
             sessions |-> randomBelow(random, 100) + 20,
             conversions |-> randomBelow(random, 15) + 2,
             revenue |-> randomBelow(random, 5000) + 500]]

DashboardGet(timeRange, random) ==
    LET endDate == DateNow
        startDate == endDate - daysOf(timeRange) * dayMs
    IN  /\ funnel' = [startDate |-> startDate, endDate |-> endDate,
                      value |-> getFunnelData(events, startDate, endDate),
                      overview |-> getOverviewMetrics(startDate, endDate, random),
                      timeline |-> generateTimelineData(startDate, endDate, random)]
        /\ response' = Respond("analytics/dashboard", 200)
        /\ UNCHANGED <<clock, sessions, conversions, lineItems, campaigns, dailyMetrics,
                       calls, events, landingPageEvents>>

----------------------------------------------------------------------------
(* Shopify conversion API: POST /api/shopify/conversion.  processConversion *)
(* is suspended at each storage call; DoCreate is the request up to its     *)
(* first one, the other steps resume a suspended call.                      *)

utmOf(attribution) ==
    <<attribution.utm_source, attribution.utm_medium, attribution.utm_campaign>>

hasCampaignSourceOnly(attribution) == attribution.utm_source \notin {NULL, ""}

\* attribution?.utm_source && attribution?.utm_medium && attribution?.utm_campaign:
\* an absent field and an empty string are both falsy
hasCampaign(attribution) ==
    /\ attribution.utm_source \notin {NULL, ""}
    /\ attribution.utm_medium \notin {NULL, ""}
    /\ attribution.utm_campaign \notin {NULL, ""}

utmField(tp, field) == IF tp = NoTouchpoint THEN NULL ELSE tp[field]

processConversionData(orderData, attribution, customerJourney) ==
    LET attributionModels == calculateAttributionModels(customerJourney, DateNow)
    IN  [sessionId |-> IF attribution.session_id # NULL THEN attribution.session_id
                       ELSE "unknown_" \o ToString(DateNow),
         conversionId |-> "conv_" \o orderData.order_id \o "_" \o ToString(DateNow),
         orderId |-> orderData.order_id,
         totalValue |-> orderData.total_price,
         itemCount |-> Len(orderData.line_items),
         firstClickUtmSource |-> utmField(attributionModels.first_click, "utm_source"),
         firstClickUtmMedium |-> utmField(attributionModels.first_click, "utm_medium"),
         firstClickUtmCampaign |-> utmField(attributionModels.first_click, "utm_campaign"),
         lastClickUtmSource |-> utmField(attributionModels.last_click, "utm_source"),
         lastClickUtmMedium |-> utmField(attributionModels.last_click, "utm_medium"),
         lastClickUtmCampaign |-> utmField(attributionModels.last_click, "utm_campaign"),
         touchpointCount |-> journeyMetrics(customerJourney).touchpointCount,
         daysToPurchase |-> journeyMetrics(customerJourney).daysToPurchase,
         sessionsToConversion |-> journeyMetrics(customerJourney).sessionsToConversion,
         attributionData |-> [customer_journey |-> customerJourney,
                              attribution_models |-> attributionModels,
                              original_attribution |-> attribution]]

DoCreate(orderData, attribution, customerJourney) ==
    LET data == processConversionData(orderData, attribution, customerJourney)
    IN  /\ Cardinality(calls) < MaxCalls
        /\ conversionCreateAllowed(data) => Len(conversions) < MaxConversions
        /\ IF conversionCreateAllowed(data)
           THEN /\ conversions' = conversionCreate(conversions, data)
                /\ calls' = calls \cup {[conversion |-> Len(conversions) + 1,
                                         orderData |-> orderData,
                                         attribution |-> attribution,
                                         pc |-> "lineItems"]}
                /\ UNCHANGED response
           ELSE \* the create throws; processConversion rethrows, POST answers 500
                /\ response' = Respond("shopify/conversion", 500)
                /\ UNCHANGED <<conversions, calls>>
        /\ UNCHANGED <<clock, sessions, lineItems, campaigns, dailyMetrics>>

DoLineItems(call) ==
    /\ call.pc = "lineItems"
    /\ lineItems' = lineItems \o lineItemRows(call.conversion, call.orderData.line_items)
    /\ calls' = (calls \ {call}) \cup {[call EXCEPT !.pc = "campaign"]}
    /\ UNCHANGED <<clock, sessions, conversions, campaigns, dailyMetrics, response>>

updateCampaignPerformance(table, source, medium, campaign, revenue) ==
    campaignUpsert(table, <<source, medium, campaign>>, revenue)

DoCampaign(call) ==
    /\ call.pc = "campaign"
    /\ campaigns' = IF hasCampaign(call.attribution)
                    THEN updateCampaignPerformance(campaigns, call.attribution.utm_source,
                            call.attribution.utm_medium, call.attribution.utm_campaign,
                            call.orderData.total_price)
                    ELSE campaigns
    /\ calls' = (calls \ {call}) \cup {[call EXCEPT !.pc = "daily"]}
    /\ UNCHANGED <<clock, sessions, conversions, lineItems, dailyMetrics, response>>

updateDailyMetrics(table, date, metrics) ==
    dailyMetricsUpsert(table, dateOnly(date), metrics)

DoDaily(call) ==
    /\ call.pc = "daily"
    /\ dailyMetrics' = updateDailyMetrics(dailyMetrics, DateNow,
                          [conversions |-> 1, revenue |-> call.orderData.total_price])
    /\ calls' = calls \ {call}
    /\ response' = Respond("shopify/conversion", 200)
    /\ UNCHANGED <<clock, sessions, conversions, lineItems, campaigns>>

\* POST /api/shopify/conversion with event checkout_step, add_to_cart or
\* product_view
ShopifyEventNames == {"checkout_step", "add_to_cart", "product_view"}

ShopifyEvents(sids) ==
    { [event |-> name, session_id |-> sid, timestamp |-> DateNow] :
        name \in ShopifyEventNames, sid \in sids }

\* eventData: data -- the column is a string and data is the request body,
\* an object: prisma.event.create rejects it
shopifyEventCreateAllowed(data) == FALSE

\* processCheckoutStep, processAddToCart, processProductView: the create
\* throws and POST answers 500
ShopifyEventPost(data) ==
    /\ shopifyEventCreateAllowed(data) => Len(events) < MaxEvents
    /\ IF shopifyEventCreateAllowed(data)
       THEN /\ events' = Append(events,
                               [sessionId |-> data.session_id, eventName |-> data.event,
                                timestamp |-> data.timestamp, createdAt |-> DateNow])
            /\ response' = Respond("shopify/conversion", 200)
       ELSE /\ response' = Respond("shopify/conversion", 500)
            /\ UNCHANGED events
    /\ UNCHANGED <<clock, sessions, conversions, lineItems, campaigns, dailyMetrics, calls,
                   landingPageEvents, funnel>>

----------------------------------------------------------------------------
(* The system *)

Tick ==
    /\ clock < MaxClock
    /\ clock' = clock + 1
    /\ UNCHANGED <<sessions, conversions, lineItems, campaigns, dailyMetrics, calls, response>>

NoResult == [none |-> TRUE]

EmptyTable == [k \in {} |-> NULL]

Init ==
    /\ clock = 0
    /\ sessions = EmptyTable
    /\ conversions = << >>
    /\ lineItems = << >>
    /\ campaigns = EmptyTable
    /\ dailyMetrics = EmptyTable
    /\ calls = {}
    /\ response = Respond("none", 0)
    /\ journey = << >>
    /\ evalNow = 0
    /\ result = NoResult
    /\ prevResult = NoResult
    /\ events = << >>
    /\ landingPageEvents = << >>
    /\ funnel = NoResult
    /\ delivered = << >>
    /\ metaEvents = {}

SessionStart == \E data \in SessionStarts : handleSessionStart(data)

Webhook ==
    \E topic \in WebhookTopics, order \in ShopifyOrders :
        ShopifyWebhook(topic, order, "valid")

\* The body is not parsed before the header is verified: one payload stands for all
WebhookUnverified ==
    \E topic \in WebhookTopics, hmacHeader \in HmacHeaders \ {"valid"} :
        ShopifyWebhook(topic, CHOOSE order \in ShopifyOrders : TRUE, hmacHeader)

TrackConversion ==
    \E data \in TrackingConversions, random \in RandomSuffixes : handleConversion(data, random)

ConversionRequest ==
    \E orderData \in OrderDatas, attribution \in Attributions,
       customerJourney \in RequestJourneys(DateNow) :
        DoCreate(orderData, attribution, customerJourney)

\* A conversion request, carrying a journey, that arrives while no other is
\* being processed
ConversionRequestAlone ==
    /\ calls = {}
    /\ \E orderData \in OrderDatas, attribution \in Attributions,
          customerJourney \in GivenJourneys(DateNow) :
           DoCreate(orderData, attribution, customerJourney)

ConversionLineItems == \E call \in calls : DoLineItems(call)

ConversionCampaign == \E call \in calls : DoCampaign(call)

ConversionDaily == \E call \in calls : DoDaily(call)

\* The Shopify webhook beside the conversion API
NextWebhook ==
    /\ \/ Tick
       \/ SessionStart
       \/ Webhook
       \/ WebhookUnverified
       \/ ConversionRequestAlone
       \/ ConversionLineItems
       \/ ConversionCampaign
       \/ ConversionDaily
    /\ UNCHANGED <<calcVars, trackVars, hookVars>>

SpecWebhook == Init /\ [][NextWebhook]_vars

\* The conversion API under concurrent requests, beside the tracking API
NextRollup ==
    /\ \/ Tick
       \/ SessionStart
       \/ TrackConversion
       \/ ConversionRequest
       \/ ConversionLineItems
       \/ ConversionCampaign
       \/ ConversionDaily
    /\ UNCHANGED <<calcVars, trackVars, hookVars>>

SpecRollup == Init /\ [][NextRollup]_vars

----------------------------------------------------------------------------
(* The attribution calculator on its own: a journey is given, and           *)
(* calculateAttributionModels is evaluated on it at successive instants.    *)

TouchpointPool ==
    { Touchpoint(-(k * halfLife), v[1], v[2]) :
        k \in 0..MaxAge,
        v \in {<<"s1", <<"google", "cpc", "spring">>>>, <<"s2", <<"meta", "paid", "launch">>>>} }

RECURSIVE SeqsOfLen(_, _)
SeqsOfLen(S, n) ==
    IF n = 0 THEN {<< >>}
    ELSE {Append(q, x) : q \in SeqsOfLen(S, n - 1), x \in S}

Journeys == UNION {SeqsOfLen(TouchpointPool, n) : n \in 0..MaxJourneyLen}

InitCalc ==
    /\ clock = 0
    /\ sessions = EmptyTable
    /\ conversions = << >>
    /\ lineItems = << >>
    /\ campaigns = EmptyTable
    /\ dailyMetrics = EmptyTable
    /\ calls = {}
    /\ response = Respond("none", 0)
    /\ journey \in Journeys
    /\ evalNow = 0
    /\ result = NoResult
    /\ prevResult = NoResult
    /\ events = << >>
    /\ landingPageEvents = << >>
    /\ funnel = NoResult
    /\ delivered = << >>
    /\ metaEvents = {}

\* One call of calculateAttributionModels(journey), Date.now() being evalNow
Evaluate ==
    /\ result' = [at |-> evalNow, value |-> calculateAttributionModels(journey, evalNow)]
    /\ prevResult' = result
    /\ UNCHANGED <<journey, evalNow>>

\* A half-life passes
Elapse ==
    /\ evalNow < halfLife
    /\ evalNow' = evalNow + halfLife
    /\ UNCHANGED <<journey, result, prevResult>>

NextCalc ==
    /\ \/ Evaluate
       \/ Elapse
    /\ UNCHANGED <<storeVars, trackVars, hookVars>>

SpecCalc == InitCalc /\ [][NextCalc]_vars

----------------------------------------------------------------------------
(* The journey metrics on their own, on journeys whose touchpoints lie      *)
(* half days apart, in any order.                                           *)

SummaryPool ==
    { Touchpoint(k * TickMs, sid, <<"google", "cpc", "spring">>) :
        k \in 0..MaxOffset, sid \in {"s1", "s2"} }

SummaryJourneys == UNION {SeqsOfLen(SummaryPool, n) : n \in 0..MaxSummaryLen}

InitSummary ==
    /\ clock = 0
    /\ sessions = EmptyTable
    /\ conversions = << >>
    /\ lineItems = << >>
    /\ campaigns = EmptyTable
    /\ dailyMetrics = EmptyTable
    /\ calls = {}
    /\ response = Respond("none", 0)
    /\ journey \in SummaryJourneys
    /\ evalNow = 0
    /\ result = NoResult
    /\ prevResult = NoResult
    /\ events = << >>
    /\ landingPageEvents = << >>
    /\ funnel = NoResult
    /\ delivered = << >>
    /\ metaEvents = {}

\* The journey metrics of processConversion, computed on journey
Summarise ==
    /\ result' = [at |-> evalNow, value |-> journeyMetrics(journey)]
    /\ prevResult' = result
    /\ UNCHANGED <<journey, evalNow>>

NextSummary == Summarise /\ UNCHANGED <<storeVars, trackVars, hookVars>>

SpecSummary == InitSummary /\ [][NextSummary]_vars

----------------------------------------------------------------------------
(* The session tracker: session starts, page views, interactions and event  *)
(* batches of one session.                                                  *)

\* Session starts of a visit that came with campaign parameters and of one
\* that came with a click id
SessionStartVariants ==
    { [sessionId |-> "s1", utmSource |-> u[1], utmMedium |-> u[2], utmCampaign |-> u[3],
       gclid |-> u[4]] :
        u \in {<<"google", "cpc", "spring", NULL>>, <<NULL, NULL, NULL, "g1">>} }

SessionStartAny == \E data \in SessionStartVariants : handleSessionStart(data)

SessionPageView == \E data \in PageViews({"s1"}) : handlePageView(data)

SessionInteraction == \E data \in Interactions({"s1"}) : handleInteraction(data)

AnalyticsBatch == \E body \in BatchBodies({"s1"}) : AnalyticsPost(body)

NextSession ==
    /\ \/ Tick /\ UNCHANGED trackVars
       \/ SessionStartAny /\ UNCHANGED trackVars
       \/ SessionPageView
       \/ SessionInteraction
       \/ AnalyticsBatch
    /\ UNCHANGED <<calcVars, hookVars>>

SpecSession == Init /\ [][NextSession]_vars

----------------------------------------------------------------------------
(* The funnel: two sessions have started; page views and interactions of    *)
(* these and of a session that never started arrive over the days, and the  *)
(* dashboard is queried.                                                    *)

StartedSession(sid) ==
    [sessionId |-> sid, createdAt |-> Epoch, updatedAt |-> Epoch,
     expiresAt |-> Epoch + inactivityWindow,
     utmSource |-> "google", utmMedium |-> "cpc", utmCampaign |-> "spring", gclid |-> NULL]

InitFunnel ==
    /\ clock = 0
    /\ sessions = [sid \in {"s1", "s2"} |-> StartedSession(sid)]
    /\ conversions = << >>
    /\ lineItems = << >>
    /\ campaigns = EmptyTable
    /\ dailyMetrics = EmptyTable
    /\ calls = {}
    /\ response = Respond("none", 0)
    /\ journey = << >>
    /\ evalNow = 0
    /\ result = NoResult
    /\ prevResult = NoResult
    /\ events = << >>
    /\ landingPageEvents = << >>
    /\ funnel = NoResult
    /\ delivered = << >>
    /\ metaEvents = {}

\* A day passes
DayPasses ==
    /\ clock + 2 <= MaxFunnelClock
    /\ clock' = clock + 2
    /\ UNCHANGED <<sessions, conversions, lineItems, campaigns, dailyMetrics, calls, response,
                   events, landingPageEvents, funnel>>

FunnelPageView == \E data \in PageViews({"s1", "s2", "s9"}) : handlePageView(data)

FunnelInteraction == \E data \in Interactions({"s1", "s2", "s9"}) : handleInteraction(data)

FunnelQuery == \E timeRange \in TimeRanges, random \in Randoms : DashboardGet(timeRange, random)

NextFunnel ==
    /\ \/ DayPasses
       \/ FunnelPageView
       \/ FunnelInteraction
       \/ FunnelQuery
    /\ UNCHANGED <<calcVars, hookVars>>

SpecFunnel == InitFunnel /\ [][NextFunnel]_vars

----------------------------------------------------------------------------
(* Properties of the conversion recorders *)

Rows == 1..Len(conversions)

RECURSIVE SumOver(_, _)
SumOver(S, f) ==
    IF S = {} THEN 0
    ELSE LET x == CHOOSE y \in S : TRUE IN f[x] + SumOver(S \ {x}, f)

\* C1: there is at most one Conversion record per orderId, whatever sequence of
\* submissions the recorders have processed.
C1_OneConversionPerOrder ==
    \A i \in Rows, j \in Rows :
        conversions[i].orderId = conversions[j].orderId => i = j

\* C2: an orders/create webhook for an order that is already recorded completes
\* successfully and sets the existing Conversion's totalValue and itemCount to
\* the submitted values.
C2_DuplicateCreateIsUpdate ==
    [][\A order \in ShopifyOrders :
         (OrderRecorded(ToString(order.id)) /\ ShopifyWebhook("orders/create", order, "valid"))
            => /\ response'.status = 200
               /\ \A i \in Rows :
                    conversions[i].orderId = ToString(order.id)
                       => /\ conversions'[i].totalValue = parseFloat(order.total_price)
                          /\ conversions'[i].itemCount = Len(order.line_items)]_vars

OrderUpdateTopics == {"orders/updated", "orders/paid", "orders/cancelled"}

MonetaryColumns == {"totalValue", "itemCount", "updatedAt"}

\* C3: an order-update webhook (orders/updated, orders/paid, orders/cancelled)
\* creates no Conversion and changes no column of any Conversion other than
\* totalValue, itemCount and updatedAt: the attribution snapshot stays as it was.
C3_OrderUpdateKeepsAttribution ==
    [][\/ /\ Len(conversions') = Len(conversions)
          /\ \A i \in Rows :
               \A f \in (DOMAIN conversions[i]) \ MonetaryColumns :
                   conversions'[i][f] = conversions[i][f]
       \/ \A topic \in OrderUpdateTopics, order \in ShopifyOrders :
               ~ShopifyWebhook(topic, order, "valid")]_vars

\* An order update has amended a Conversion that carries a two-touchpoint
\* attribution snapshot.
C3_Witness ==
    \E i \in Rows :
        /\ conversions[i].updatedAt # None
        /\ conversions[i].attributionData # NoAttributionData
        /\ conversions[i].touchpointCount = Some(2)
        /\ conversions[i].totalValue = 25

\* Conversions recorded by processConversion with the campaign triple t
RecordedWith(t) ==
    { i \in Rows :
        /\ conversions[i].attributionData # NoAttributionData
        /\ hasCampaign(conversions[i].attributionData.original_attribution)
        /\ utmOf(conversions[i].attributionData.original_attribution) = t }

\* Calls carrying the triple t that have not reached their campaign upsert yet
BeforeCampaign(t) ==
    { c \in calls :
        /\ hasCampaign(c.attribution)
        /\ utmOf(c.attribution) = t
        /\ c.pc \in {"lineItems", "campaign"} }

CampaignConversions(t) == IF t \in DOMAIN campaigns THEN campaigns[t].conversions ELSE 0

CampaignRevenue(t) == IF t \in DOMAIN campaigns THEN campaigns[t].revenue ELSE 0

\* C4: under every interleaving of concurrent processConversion calls carrying
\* the same campaign triple, every call that has executed its campaign upsert
\* is counted: the Campaign row holds one conversion and the revenue of each of
\* them, also when the row did not exist beforehand.  (No order update runs in
\* this specification, so a row's totalValue is the revenue submitted.)
C4_NoLostCampaignIncrement ==
    \A t \in UtmTriples :
        LET done == RecordedWith(t) \ {c.conversion : c \in BeforeCampaign(t)}
        IN  /\ CampaignConversions(t) = Cardinality(done)
            /\ CampaignRevenue(t) = SumOver(done, [i \in Rows |-> conversions[i].totalValue])
            /\ t \in DOMAIN campaigns <=> done # {}

\* Two calls in flight at once have both executed their campaign upsert on a
\* row that the first of them created.
C4_Witness ==
    /\ Cardinality({c \in calls : hasCampaign(c.attribution) /\ c.pc = "daily"}) = 2
    /\ CampaignConversions(<<"google", "cpc", "spring">>) = 2
    /\ CampaignRevenue(<<"google", "cpc", "spring">>) = 35

\* C5: the rollup runs only on the first recording of an order: once every
\* request has completed, a Campaign's conversions counter is the number of
\* distinct order identities recorded with its triple.
C5_RollupOncePerOrder ==
    calls = {} =>
        \A t \in UtmTriples :
            CampaignConversions(t)
                = Cardinality({conversions[i].orderId : i \in RecordedWith(t)})

----------------------------------------------------------------------------
(* Properties of the attribution calculator *)

Evaluated == result # NoResult

N == Len(journey)

One == <<1, 1>>

SumOfWeights(list) == RatSum(Weights(list))

\* C6 as stated: for every non-empty journey the weights of each weighted
\* model (linear, time_decay, position_based) sum to 1.
C6_AllModelsSumToOne ==
    (Evaluated /\ N >= 1) =>
        /\ SumOfWeights(result.value.linear) = One
        /\ SumOfWeights(result.value.time_decay) = One
        /\ SumOfWeights(result.value.position_based) = One

\* C6 amended: for every non-empty journey the linear and the time_decay
\* weights sum to 1; the position_based weights sum to 1 for N = 1 and for
\* N >= 3, and to 0.8 for N = 2.
C6_WeightsSum ==
    (Evaluated /\ N >= 1) =>
        /\ SumOfWeights(result.value.linear) = One
        /\ SumOfWeights(result.value.time_decay) = One
        /\ SumOfWeights(result.value.position_based) = IF N = 2 THEN Rat(4, 5) ELSE One

\* A two-touchpoint journey, its touchpoints of different ages, has been evaluated.
C6_Witness ==
    /\ Evaluated
    /\ N = 2
    /\ journey[1].timestamp # journey[2].timestamp

\* C7: position_based gives 1.0 to the single touchpoint of a journey with
\* N = 1; for N >= 2 it gives 0.4 to the first and to the last touchpoint and
\* 0.2 / max(1, N-2) to each touchpoint between them, so [0.4, 0.4] for N = 2.
C7_PositionBasedWeights ==
    (Evaluated /\ N >= 1) =>
        LET w == Weights(result.value.position_based)
        IN  /\ Len(w) = N
            /\ N = 1 => w = <<One>>
            /\ N = 2 => w = <<Rat(2, 5), Rat(2, 5)>>
            /\ N >= 2 =>
                 /\ w[1] = Rat(2, 5)
                 /\ w[N] = Rat(2, 5)
                 /\ \A i \in 2..(N - 1) : w[i] = Rat(1, 5 * Max(1, N - 2))

\* A journey with two touchpoints between its first and its last has been evaluated.
C7_Witness ==
    /\ Evaluated
    /\ N = 4
    /\ result.value.position_based[2].attribution_weight = Rat(1, 10)

\* The earliest touchpoint, the first supplied among those of the smallest
\* timestamp, and the latest, the last supplied among those of the largest
Earliest(customerJourney) ==
    customerJourney[CHOOSE i \in 1..Len(customerJourney) :
        \A j \in 1..Len(customerJourney) :
            \/ customerJourney[i].timestamp < customerJourney[j].timestamp
            \/ (customerJourney[i].timestamp = customerJourney[j].timestamp /\ i <= j)]

Latest(customerJourney) ==
    customerJourney[CHOOSE i \in 1..Len(customerJourney) :
        \A j \in 1..Len(customerJourney) :
            \/ customerJourney[i].timestamp > customerJourney[j].timestamp
            \/ (customerJourney[i].timestamp = customerJourney[j].timestamp /\ i >= j)]

\* C8: for every non-empty journey, in whatever order its touchpoints are
\* supplied, first_click is the touchpoint of the smallest timestamp and
\* last_click the one of the largest, ties broken by insertion order.
C8_ClicksByTimestamp ==
    (Evaluated /\ N >= 1) =>
        /\ result.value.first_click = Earliest(journey)
        /\ result.value.last_click = Latest(journey)

\* C9: the raw time-decay weight of a touchpoint is 2^(-dt/H), H being 7 days
\* and dt the time from the touchpoint to the evaluation: it is exactly 1 for
\* a touchpoint at that instant, and a touchpoint one half-life older than
\* another has exactly half its raw weight (and half its normalised weight).
C9_TimeDecayHalves ==
    (Evaluated /\ result.at = evalNow) =>
        LET raw == timeDecayWeights(journey, evalNow)
            w == Weights(result.value.time_decay)
        IN  /\ halfLife = 7 * dayMs
            /\ \A i \in 1..N :
                 /\ journey[i].timestamp = evalNow => raw[i] = One
                 /\ RatDiv(w[i], w[1]) = RatDiv(raw[i], raw[1])
            /\ \A i \in 1..N, j \in 1..N :
                 journey[j].timestamp = journey[i].timestamp - halfLife
                    => /\ RatAdd(raw[j], raw[j]) = raw[i]
                       /\ RatAdd(w[j], w[j]) = w[i]

\* A journey with a touchpoint at the evaluation instant and one a half-life
\* before it has been evaluated.
C9_Witness ==
    /\ Evaluated
    /\ result.at = evalNow
    /\ \E i \in 1..N, j \in 1..N :
         /\ journey[i].timestamp = evalNow
         /\ journey[j].timestamp = evalNow - halfLife

----------------------------------------------------------------------------
(* Properties of the journey summary and of the empty journey *)

\* Conversions recorded by processConversion from an absent or empty journey
RecordedWithoutJourney ==
    { i \in Rows :
        /\ conversions[i].attributionData # NoAttributionData
        /\ NoJourney(conversions[i].attributionData.customer_journey) }

\* C11: for an empty or absent journey calculateAttributionModels returns
\* first_click = null, last_click = null and empty linear, time_decay and
\* position_based lists, and the conversion is recorded with touchpointCount 0,
\* daysToPurchase null and sessionsToConversion 0.
C11_EmptyJourneyRecorded ==
    \A i \in RecordedWithoutJourney :
        LET models == conversions[i].attributionData.attribution_models
        IN  /\ models.first_click = NoTouchpoint
            /\ models.last_click = NoTouchpoint
            /\ models.linear = << >>
            /\ models.time_decay = << >>
            /\ models.position_based = << >>
            /\ conversions[i].touchpointCount = Some(0)
            /\ conversions[i].daysToPurchase = None
            /\ conversions[i].sessionsToConversion = Some(0)
            /\ conversions[i].firstClickUtmSource = NULL
            /\ conversions[i].lastClickUtmSource = NULL

\* One conversion has been recorded from an absent journey and one from an
\* empty journey.
C11_Witness ==
    /\ \E i \in RecordedWithoutJourney :
            conversions[i].attributionData.customer_journey = UNDEFINED
    /\ \E i \in RecordedWithoutJourney :
            /\ conversions[i].attributionData.customer_journey # UNDEFINED
            /\ Len(conversions[i].attributionData.customer_journey) = 0

\* C12: for every non-empty journey of N touchpoints, daysToPurchase is the
\* difference between the last and the first touchpoint's timestamps in days,
\* rounded to the nearest whole day (a half rounds up), sessionsToConversion is
\* the number of distinct session identifiers among the touchpoints, and
\* touchpointCount is N.
C12_SummaryFields ==
    (Evaluated /\ N >= 1) =>
        LET diff == journey[N].timestamp - journey[1].timestamp
            days == result.value.daysToPurchase
        IN  /\ result.value.touchpointCount = Some(N)
            /\ result.value.sessionsToConversion
                  = Some(Cardinality({journey[i].session_id : i \in 1..N}))
            /\ Len(days) = 1
            /\ 2 * (diff - days[1] * dayMs) >= -dayMs
            /\ 2 * (diff - days[1] * dayMs) < dayMs

\* The metrics of a journey of three touchpoints of two sessions, the last
\* touchpoint half a day after the first: one day to purchase.
C12_Witness ==
    /\ Evaluated
    /\ N = 3
    /\ journey[3].timestamp - journey[1].timestamp = TickMs
    /\ result.value.daysToPurchase = Some(1)
    /\ result.value.sessionsToConversion = Some(2)

----------------------------------------------------------------------------
(* Properties of the funnel *)

Queried == funnel # NoResult

\* funnelData before its rates are computed, from a list of visitor counts
FunnelOf(visitors) ==
    [i \in 1..Len(visitors) |->
        [step |-> ToString(i), visitors |-> visitors[i], conversionRate |-> <<0, 1>>,
         dropOff |-> 0]]

\* C13: in the funnel result step 0 has conversionRate 100 and dropOff 0, and
\* every later step i has conversionRate = visitors[i] / visitors[0] * 100,
\* relative to step 0, and dropOff = visitors[i-1] - visitors[i]; visitors
\* 100, 60, 20, 5 give rates 100, 60, 20, 5 and drop-offs 0, 40, 40, 15.
C13_FunnelRates ==
    /\ Queried =>
          LET f == funnel.value
          IN  /\ f[1].conversionRate = <<100, 1>>
              /\ f[1].dropOff = 0
              /\ \A i \in 2..Len(f) :
                    /\ f[i].dropOff = f[i - 1].visitors - f[i].visitors
                    /\ f[1].visitors > 0 =>
                          f[i].conversionRate[1] * f[1].visitors
                            = 100 * f[i].visitors * f[i].conversionRate[2]
    /\ LET g == funnelRates(FunnelOf(<<100, 60, 20, 5>>))
       IN  /\ [i \in 1..4 |-> g[i].conversionRate]
                 = <<(<<100, 1>>), (<<60, 1>>), (<<20, 1>>), (<<5, 1>>)>>
           /\ [i \in 1..4 |-> g[i].dropOff] = <<0, 40, 40, 15>>

\* A funnel of two landing sessions of which one viewed a product and none
\* added to cart: rates 100, 50, 0 and drop-offs 0, 1, 1.
C13_Witness ==
    /\ Queried
    /\ funnel.value[1].visitors = 2
    /\ funnel.value[2].visitors = 1
    /\ funnel.value[2].conversionRate = <<50, 1>>
    /\ funnel.value[2].dropOff = 1
    /\ funnel.value[3].conversionRate = <<0, 1>>
    /\ funnel.value[3].dropOff = 1

\* The sessions having an Event of the name whose event time, its timestamp,
\* lies in the window
SessionsWithEventIn(eventName, startDate, endDate) ==
    { events[k].sessionId : k \in { n \in 1..Len(events) :
        /\ events[n].eventName = eventName
        /\ events[n].timestamp >= startDate
        /\ events[n].timestamp <= endDate } }

\* C14: a dashboard query gives each funnel step, as visitors, the number of
\* distinct sessionIds having at least one Event whose name is the step's
\* eventPattern and whose event time lies within the query window, each step
\* counted independently of the others.
C14_VisitorsByEventTime ==
    [][\A timeRange \in TimeRanges :
         (\E random \in Randoms : DashboardGet(timeRange, random)) =>
            \A i \in 1..Len(steps) :
                funnel'.value[i].visitors
                  = Cardinality(SessionsWithEventIn(steps[i].eventPattern,
                                                    funnel'.startDate, funnel'.endDate))]_vars

----------------------------------------------------------------------------
(* Properties of the session tracker *)

\* C15: when two activities of a session have been processed, the first at
\* the instant the row keeps as createdAt and the last at the later instant it
\* keeps as updatedAt, the session's expiresAt is at least the later instant
\* plus the 30-minute inactivity window.
C15_ExpiryCoversLatestActivity ==
    \A s \in DOMAIN sessions :
        sessions[s].createdAt < sessions[s].updatedAt
            => sessions[s].expiresAt >= sessions[s].updatedAt + inactivityWindow

\* C16: no operation ever decreases a session's expiresAt.
C16_ExpiryNeverDecreases ==
    [][\A s \in DOMAIN sessions : sessions'[s].expiresAt >= sessions[s].expiresAt]_vars

\* The step handles an event (session_start, page_view, interaction or a
\* batch event) of session s
HandlesEventOf(s) ==
    \/ \E data \in SessionStartVariants : data.sessionId = s /\ handleSessionStart(data)
    \/ \E data \in PageViews({s}) : handlePageView(data)
    \/ \E data \in Interactions({s}) : handleInteraction(data)
    \/ \E body \in BatchBodies({s}) : Len(body.events) > 0 /\ AnalyticsPost(body)

\* C17: every event handled for an existing session refreshes it: afterwards
\* the session's updatedAt is the handling time and its expiresAt is at least
\* the handling time plus 30 minutes.
C17_EveryEventRefreshes ==
    [][\A s \in DOMAIN sessions :
         HandlesEventOf(s) =>
            /\ sessions'[s].updatedAt = DateNow
            /\ sessions'[s].expiresAt >= DateNow + inactivityWindow]_vars

FirstTouchFields == {"utmSource", "utmMedium", "utmCampaign", "gclid"}

\* C18: first-touch context is write-once: a UTM field or click id of a
\* session that holds a value is never changed, and a session_start that
\* carries a value for a field still empty fills the field.
C18_FirstTouchWriteOnce ==
    [][\A s \in DOMAIN sessions, f \in FirstTouchFields :
         /\ sessions[s][f] # NULL => sessions'[s][f] = sessions[s][f]
         /\ \A data \in SessionStartVariants :
              (data.sessionId = s /\ handleSessionStart(data)
                 /\ sessions[s][f] = NULL /\ data[f] # NULL)
                => sessions'[s][f] = data[f]]_vars

\* C19: every session_start and every batch-event request naming a sessionId
\* completes without error and leaves the Session record of that sessionId
\* in place (the table holds one row per sessionId).
C19_SessionRequestsSucceed ==
    [][/\ \A data \in SessionStartVariants :
            handleSessionStart(data)
               => response'.status = 200 /\ data.sessionId \in DOMAIN sessions'
       /\ \A body \in BatchBodies({"s1"}) :
            (Len(body.events) > 0 /\ AnalyticsPost(body))
               => response'.status = 200 /\ body.events[1].session_id \in DOMAIN sessions']_vars

----------------------------------------------------------------------------
(* Properties of the daily rollup *)

\* Conversions recorded by processConversion calls that have returned
Completed ==
    { i \in Rows :
        /\ conversions[i].attributionData # NoAttributionData
        /\ \A c \in calls : c.conversion # i }

Days == DOMAIN dailyMetrics

----------------------------------------------------------------------------
(* Properties of the error paths *)

UtmColumns ==
    {"firstClickUtmSource", "firstClickUtmMedium", "firstClickUtmCampaign",
     "lastClickUtmSource", "lastClickUtmMedium", "lastClickUtmCampaign"}

\* C21: a conversion that cites a session key for which no Session record
\* exists, with no journey data supplied, is still recorded: the request adds
\* a Conversion row of its order whose first-click and last-click UTM columns
\* are unset.
C21_UnknownSessionStillRecorded ==
    [][\A data \in TrackingConversions, random \in RandomSuffixes :
         (data.sessionId \notin DOMAIN sessions /\ handleConversion(data, random))
            => /\ Len(conversions') = Len(conversions) + 1
               /\ conversions'[Len(conversions')].orderId = data.orderId
               /\ \A f \in UtmColumns : conversions'[Len(conversions')][f] = NULL]_vars

\* C22: an event citing a session for which no Session record exists is a
\* soft failure: the page_view or interaction request is not aborted, it
\* answers success and its landing-page row is kept.
C22_UnknownSessionSoftFailure ==
    [][/\ \A data \in PageViews({"s9"}) :
            ("s9" \notin DOMAIN sessions /\ handlePageView(data))
               => /\ response'.status = 200
                  /\ Len(landingPageEvents') = Len(landingPageEvents) + 1
       /\ \A data \in Interactions({"s9"}) :
            ("s9" \notin DOMAIN sessions /\ handleInteraction(data))
               => /\ response'.status = 200
                  /\ Len(landingPageEvents') = Len(landingPageEvents) + 1]_vars

----------------------------------------------------------------------------
(* The conversion API while the database is failing: any storage call of a  *)
(* suspended processConversion may throw instead of taking effect.          *)

\* prisma.conversion.create throws: processConversion logs and rethrows, POST
\* answers 500
DoCreateThrows(orderData, attribution, customerJourney) ==
    /\ Cardinality(calls) < MaxCalls
    /\ response' = Respond("shopify/conversion", 500)
    /\ UNCHANGED <<clock, sessions, conversions, lineItems, campaigns, dailyMetrics, calls>>

\* prisma.conversionLineItem.createMany throws: processConversion logs and
\* rethrows, POST answers 500; the conversion row stays
DoLineItemsThrows(call) ==
    /\ call.pc = "lineItems"
    /\ Len(call.orderData.line_items) > 0
    /\ calls' = calls \ {call}
    /\ response' = Respond("shopify/conversion", 500)
    /\ UNCHANGED <<clock, sessions, conversions, lineItems, campaigns, dailyMetrics>>

\* prisma.campaign.upsert throws: updateCampaignPerformance catches and logs
\* the error, and processConversion goes on to the daily metrics
DoCampaignThrows(call) ==
    /\ call.pc = "campaign"
    /\ hasCampaign(call.attribution)
    /\ calls' = (calls \ {call}) \cup {[call EXCEPT !.pc = "daily"]}
    /\ UNCHANGED <<clock, sessions, conversions, lineItems, campaigns, dailyMetrics, response>>

\* prisma.dailyMetrics.upsert throws: updateDailyMetrics catches and logs the
\* error, processConversion returns the conversion and POST answers success
DoDailyThrows(call) ==
    /\ call.pc = "daily"
    /\ calls' = calls \ {call}
    /\ response' = Respond("shopify/conversion", 200)
    /\ UNCHANGED <<clock, sessions, conversions, lineItems, campaigns, dailyMetrics>>

ConversionRequestThrows ==
    \E orderData \in OrderDatas, attribution \in Attributions,
       customerJourney \in GivenJourneys(DateNow) :
        DoCreateThrows(orderData, attribution, customerJourney)

ConversionLineItemsThrows == \E call \in calls : DoLineItemsThrows(call)

ConversionCampaignThrows == \E call \in calls : DoCampaignThrows(call)

ConversionDailyThrows == \E call \in calls : DoDailyThrows(call)

NextOutage ==
    /\ \/ Tick
       \/ SessionStart
       \/ ConversionRequestAlone
       \/ ConversionLineItems
       \/ ConversionCampaign
       \/ ConversionDaily
       \/ ConversionRequestThrows
       \/ ConversionLineItemsThrows
       \/ ConversionCampaignThrows
       \/ ConversionDailyThrows
    /\ UNCHANGED <<calcVars, trackVars, hookVars>>

SpecOutage == Init /\ [][NextOutage]_vars

\* C23: a storage failure during any write of conversion recording, the
\* campaign and daily-metric rollup writes included, is propagated to the
\* caller: the step at which the write throws ends the request with a 500
\* answer, so no request answers success with a rollup increment missing.
C23_StorageFailurePropagated ==
    [][\A call \in calls :
         (DoLineItemsThrows(call) \/ DoCampaignThrows(call) \/ DoDailyThrows(call))
            => response'.status = 500 /\ call \notin calls'
                 /\ \A c \in calls' : c.conversion # call.conversion]_vars

----------------------------------------------------------------------------
(* Properties of the dashboard answer *)

\* C24: every number of a dashboard answer is determined by the stored
\* records and the query window: the overview and the timeline a query
\* returns are those any query over the same state and window returns.
C24_DashboardDetermined ==
    [][\A timeRange \in TimeRanges, random \in Randoms :
         DashboardGet(timeRange, random) =>
            \A other \in Randoms :
               /\ funnel'.overview
                    = getOverviewMetrics(funnel'.startDate, funnel'.endDate, other)
               /\ funnel'.timeline
                    = generateTimelineData(funnel'.startDate, funnel'.endDate, other)]_vars

----------------------------------------------------------------------------
(* The Shopify webhook with its deliveries logged, the Meta pixel being     *)
(* configured: order and checkout webhooks arrive in any order, verified or *)
(* not, beside session starts.                                              *)

\* One delivery and its answer
Deliver(topic, order, hmacHeader) ==
    /\ Len(delivered) < MaxDeliveries
    /\ ShopifyWebhookWithPixel(topic, order, hmacHeader)
    /\ delivered' = Append(delivered, [topic |-> topic, order |-> order,
                                       hmacHeader |-> hmacHeader,
                                       status |-> response'.status])

DeliverVerified ==
    \E topic \in AllWebhookTopics, order \in ShopifyOrders : Deliver(topic, order, "valid")

\* The body is not parsed before the header is verified: one payload stands for all
DeliverUnverified ==
    \E topic \in AllWebhookTopics, hmacHeader \in HmacHeaders \ {"valid"} :
        Deliver(topic, CHOOSE order \in ShopifyOrders : order.note # NULL, hmacHeader)

NextDelivery ==
    /\ \/ Tick /\ UNCHANGED <<events, hookVars>>
       \/ SessionStart /\ UNCHANGED <<events, hookVars>>
       \/ DeliverVerified
       \/ DeliverUnverified
    /\ UNCHANGED <<calcVars, landingPageEvents, funnel>>

SpecDelivery == Init /\ [][NextDelivery]_vars

----------------------------------------------------------------------------
(* Properties of the webhook deliveries *)

\* Deliveries of topic for the order id that were verified and answered 200
Answered(topic, id) ==
    { i \in 1..Len(delivered) :
        /\ delivered[i].topic = topic
        /\ delivered[i].order.id = id
        /\ delivered[i].hmacHeader = "valid"
        /\ delivered[i].status = 200 }

\* C25: when one orders/create and one orders/updated of the same order have
\* both been delivered and answered with success, in either order, there is
\* exactly one Conversion of the order and its totalValue and itemCount are
\* those of the update.
C25_OutOfOrderTolerated ==
    \A id \in OrderNumbers :
        (Cardinality(Answered("orders/create", id)) = 1
           /\ Cardinality(Answered("orders/updated", id)) = 1)
        => LET update == delivered[CHOOSE i \in Answered("orders/updated", id) : TRUE].order
               rows == { i \in Rows : conversions[i].orderId = ToString(id) }
           IN  /\ Cardinality(rows) = 1
               /\ \A i \in rows :
                    /\ conversions[i].totalValue = parseFloat(update.total_price)
                    /\ conversions[i].itemCount = Len(update.line_items)

\* C28: a webhook request whose HMAC header is missing or does not match the
\* body, or that arrives while no webhook secret is configured, changes no
\* state, whatever its topic and payload: no table row is created or updated
\* and no Meta event is posted.
C28_UnverifiedChangesNothing ==
    [][\A topic \in AllWebhookTopics, order \in ShopifyOrders,
          hmacHeader \in {"missing", "mismatch", "wrong_length", "no_secret"} :
         ShopifyWebhookWithPixel(topic, order, hmacHeader)
            => UNCHANGED <<sessions, conversions, lineItems, campaigns, dailyMetrics,
                           events, landingPageEvents, metaEvents>>]_vars

\* A verified order has been recorded and its Purchase posted, and the
\* delivery after it, of a header that does not match, was refused.
C28_Witness ==
    /\ Len(delivered) = 2
    /\ delivered[1].hmacHeader = "valid" /\ delivered[1].topic = "orders/create"
    /\ delivered[1].status = 200
    /\ delivered[2].hmacHeader = "mismatch" /\ delivered[2].topic = "orders/updated"
    /\ delivered[2].status = 401
    /\ Len(conversions) = 1
    /\ metaEvents # {}

----------------------------------------------------------------------------
(* Conversions of sessions old and new: sessions start, time passes, and    *)
(* conversions arrive through the tracking API and as orders/create         *)
(* webhooks.                                                                *)

WebhookOrderCreate ==
    \E order \in ShopifyOrders : ShopifyWebhook("orders/create", order, "valid")

NextExpiry ==
    /\ \/ Tick
       \/ SessionStart
       \/ TrackConversion
       \/ WebhookOrderCreate
    /\ UNCHANGED <<calcVars, trackVars, hookVars>>

SpecExpiry == Init /\ [][NextExpiry]_vars

----------------------------------------------------------------------------
(* Properties of expired sessions *)

Expired(sid) == sid \in DOMAIN sessions /\ sessions[sid].expiresAt < DateNow

\* The UTM columns of the conversion row, as taken from the session row
AnchoredTo(row, session) ==
    /\ row.firstClickUtmSource = session.utmSource
    /\ row.firstClickUtmMedium = session.utmMedium
    /\ row.firstClickUtmCampaign = session.utmCampaign
    /\ row.lastClickUtmSource = session.utmSource
    /\ row.lastClickUtmMedium = session.utmMedium
    /\ row.lastClickUtmCampaign = session.utmCampaign

----------------------------------------------------------------------------
(* The events table under every operation that reaches it: page views,      *)
(* interactions and batches of the trackers, checkouts of the webhook,      *)
(* events of the conversion API and queries of the dashboard, on a store    *)
(* where session s1 has started.                                            *)

InitEvents ==
    /\ clock = 0
    /\ sessions = [sid \in {"s1"} |-> StartedSession(sid)]
    /\ conversions = << >>
    /\ lineItems = << >>
    /\ campaigns = EmptyTable
    /\ dailyMetrics = EmptyTable
    /\ calls = {}
    /\ response = Respond("none", 0)
    /\ journey = << >>
    /\ evalNow = 0
    /\ result = NoResult
    /\ prevResult = NoResult
    /\ events = << >>
    /\ landingPageEvents = << >>
    /\ funnel = NoResult
    /\ delivered = << >>
    /\ metaEvents = {}

EventsPageView ==
    /\ Len(events) < MaxEvents
    /\ \E data \in PageViews({"s1", "s9"}) : handlePageView(data)

EventsInteraction ==
    /\ Len(events) < MaxEvents
    /\ \E data \in Interactions({"s1", "s9"}) : handleInteraction(data)

EventsBatch == \E body \in BatchBodies({"s1"}) : AnalyticsPost(body)

EventsCheckout ==
    \E order \in ShopifyOrders : ShopifyWebhook("checkouts/create", order, "valid")

EventsShopifyEvent == \E data \in ShopifyEvents({"s1"}) : ShopifyEventPost(data)

EventsQuery == \E timeRange \in TimeRanges, random \in Randoms : DashboardGet(timeRange, random)

NextEvents ==
    /\ \/ EventsPageView
       \/ EventsInteraction
       \/ EventsBatch
       \/ EventsCheckout /\ UNCHANGED <<landingPageEvents, funnel>>
       \/ EventsShopifyEvent
       \/ EventsQuery
    /\ UNCHANGED <<calcVars, hookVars>>

SpecEvents == InitEvents /\ [][NextEvents]_vars

\* C27: events are append-only: every step, whether an ingestion, a webhook
\* or a query, leaves the rows of the events table as they were, in their
\* order, and at most appends rows after them.
C27_EventsAppendOnly ==
    [][/\ Len(events') >= Len(events)
       /\ \A i \in 1..Len(events) : events'[i] = events[i]]_vars

\* A page view, an interaction and a checkout have been stored, in that
\* order, and the dashboard has been queried since.
C27_Witness ==
    /\ Len(events) = 3
    /\ events[1].eventName = "page_view"
    /\ events[2].eventName = "add_to_cart"
    /\ events[3].eventName = "checkout_started"
    /\ funnel # NoResult
    /\ funnel.value[3].visitors = 1

----------------------------------------------------------------------------
(* Properties of the funnel's drop-offs *)

\* C29: in every funnel result the drop-offs telescope, their sum over all
\* steps being visitors[0] - visitors[last]; and when step 0 has no visitor,
\* step 0 still reports conversionRate 100 and every later step 0.
C29_DropOffsTelescope ==
    Queried =>
       LET f == funnel.value
       IN  /\ SumOver(1..Len(f), [i \in 1..Len(f) |-> f[i].dropOff])
                = f[1].visitors - f[Len(f)].visitors
           /\ f[1].visitors = 0 =>
                 /\ f[1].conversionRate = <<100, 1>>
                 /\ \A i \in 2..Len(f) : f[i].conversionRate = <<0, 1>>

\* A funnel without a landing page view whose later steps have visitors: one
\* session viewed a product, two added to cart.
C29_Witness ==
    /\ Queried
    /\ funnel.value[1].visitors = 0
    /\ funnel.value[2].visitors = 1
    /\ funnel.value[3].visitors = 2
    /\ funnel.value[2].dropOff = -1
    /\ funnel.value[3].dropOff = -1
    /\ funnel.value[4].dropOff = 2

----------------------------------------------------------------------------
(* The conversion API on attributions that may lack campaign fields, one    *)
(* request at a time, each with an empty journey.                           *)

ConversionRequestPartial ==
    /\ calls = {}
    /\ \E orderData \in OrderDatas, attribution \in PartialAttributions :
           DoCreate(orderData, attribution, << >>)

NextPartial ==
    /\ \/ SessionStart
       \/ ConversionRequestPartial
       \/ ConversionLineItems
       \/ ConversionCampaign
       \/ ConversionDaily
    /\ UNCHANGED <<calcVars, trackVars, hookVars>>

SpecPartial == Init /\ [][NextPartial]_vars

\* The attribution carries all three of utm_source, utm_medium, utm_campaign
CarriesTriple(attribution) ==
    \A f \in {"utm_source", "utm_medium", "utm_campaign"} : attribution[f] \notin {NULL, ""}

DayConversions(d) == IF d \in DOMAIN dailyMetrics THEN dailyMetrics[d].conversions ELSE 0

DayRevenue(d) == IF d \in DOMAIN dailyMetrics THEN dailyMetrics[d].revenue ELSE 0

\* C30: processConversion touches Campaign rows only when the attribution
\* carries all three of utm_source, utm_medium and utm_campaign: a call whose
\* attribution lacks any of them creates and modifies no Campaign row at any
\* of its steps, while its Conversion is recorded and its last step adds one
\* conversion and the order's revenue to the DailyMetric of the day; a call
\* that carries all three adds them to the Campaign row of its triple.
C30_CampaignOnlyWithTriple ==
    [][/\ \A orderData \in OrderDatas, attribution \in PartialAttributions :
            (/\ ~CarriesTriple(attribution)
             /\ conversionCreateAllowed(processConversionData(orderData, attribution, << >>))
             /\ DoCreate(orderData, attribution, << >>))
            => /\ Len(conversions') = Len(conversions) + 1
               /\ conversions'[Len(conversions')].orderId = orderData.order_id
               /\ campaigns' = campaigns
       /\ \A call \in calls :
            /\ (~CarriesTriple(call.attribution)
                  /\ (DoLineItems(call) \/ DoCampaign(call) \/ DoDaily(call)))
               => /\ campaigns' = campaigns
                  /\ conversions' = conversions
                  /\ conversions[call.conversion].orderId = call.orderData.order_id
            /\ (~CarriesTriple(call.attribution) /\ DoDaily(call))
               => /\ response'.status = 200
                  /\ DayConversions(dateOnly(DateNow))' = DayConversions(dateOnly(DateNow)) + 1
                  /\ DayRevenue(dateOnly(DateNow))'
                        = DayRevenue(dateOnly(DateNow)) + call.orderData.total_price
            /\ (CarriesTriple(call.attribution) /\ DoCampaign(call))
               => CampaignConversions(utmOf(call.attribution))'
                     = CampaignConversions(utmOf(call.attribution)) + 1]_vars

\* Two conversions have gone through processConversion, one with source and
\* medium but no campaign, one with an empty campaign: both are recorded and
\* counted in the day's row, and there is no Campaign row.
C30_Witness ==
    /\ calls = {}
    /\ clock = 0
    /\ Len(conversions) = 2
    /\ conversions[1].attributionData.original_attribution
          = [session_id |-> "s1", utm_source |-> "google", utm_medium |-> "cpc",
             utm_campaign |-> NULL]
    /\ conversions[2].attributionData.original_attribution.utm_campaign = ""
    /\ conversions[2].attributionData.original_attribution.utm_source = "google"
    /\ DOMAIN campaigns = {}
    /\ DayConversions(dateOnly(Epoch)) = 2
    /\ DayRevenue(dateOnly(Epoch)) = 35

====
